---- MODULE Spec2Model ----
(***************************************************************************)
(* Model of triangula.util.IntervalCheck (src/python/triangula/util.py).   *)
(*                                                                         *)
(* Time is counted in integer ticks of the clock returned by time().  The  *)
(* gate is the pair (interval, last_time); last_time is the empty tuple    *)
(* while it is None and the one-element tuple <<t>> once it is set.        *)
(* Each call of should_run() or sleep() is one action; the clock value the *)
(* call reads and the clock value at which time_sleep() wakes are inputs.  *)
(***************************************************************************)
EXTENDS Integers, Sequences, FiniteSets, TLC

VARIABLES interval,     \* self.interval
          last_time,    \* self.last_time: <<>> is None, <<t>> is the float t
          clock,        \* the latest value the time source has shown
          monotone,     \* history: no call has yet read a value below clock
          ret,          \* record of the call that completed last
          prev_return,  \* clock value at which the call before that returned
          permits,      \* history: clock readings of the should_run() calls that returned True
          permit_twice, \* history: some clock reading was read by two calls that returned True
          called,       \* history: names of the operations called so far
          log,          \* scenario runs: one entry per call
          gates,        \* several gates: gates[g] is the instance g, [interval, last_time]
          gret,         \* several gates: record of the call that completed last
          pc,           \* threads: pc[t] is the line of should_run() thread t is about to run
          tnow,         \* threads: the local variable now of thread t
          tseen,        \* threads: the value of self.last_time the test of line 35 read
          lock,         \* threads: the holder of the caller's lock, 0 when free
          locking,      \* threads: the callers wrap every call in the lock
          raced,        \* threads, history: line 36 overwrote a last_time its test had not read
          permitters    \* threads, history: the threads whose calls returned True

vars == <<interval, last_time, clock, monotone, ret, prev_return, permits, permit_twice, called, log,
          gates, gret, pc, tnow, tseen, lock, locking, raced, permitters>>

\* the variables of the runs with several threads
thread_vars == <<pc, tnow, tseen, lock, locking, raced, permitters>>

\* the variables of the runs with several gates
gate_vars == <<gates, gret>>

\* ---------------------------------------------------------------- bounds
MaxTime == 6
MaxInterval == 3
MaxCalls == 4

Time == 0..MaxTime
Intervals == -1..MaxInterval

\* the scenario runs count time in ticks of 0.05 s: interval 1.0 s is 20 ticks
\* and the calls read the clock at 0.0, 0.5, 1.05 and 1.5 s
ScenarioIntervals == {20}
ScenarioReadings == <<0, 10, 21, 30>>
ScenarioTimes == {ScenarioReadings[i] : i \in DOMAIN ScenarioReadings}

None == <<>>

\* ------------------------------------------------------- IntervalCheck
\* mutants of line 35
PermitGe(lt, now, T) == lt = None \/ now - lt[1] >= T
PermitNoFirst(lt, now, T) == lt # None /\ now - lt[1] > T

\* line 35: self.last_time is None or now - self.last_time > self.interval
Permit(lt, now, T) == lt = None \/ now - lt[1] > T

\* mutants of lines 35-39
should_run_last_always(lt, now, T) == <<now>>
should_run_last_target(lt, now, T) ==
    IF lt = None THEN <<now>>
    ELSE IF Permit(lt, now, T) THEN <<lt[1] + T>>
    ELSE lt

\* lines 35-39: the value of self.last_time after should_run()
should_run_last(lt, now, T) == IF Permit(lt, now, T) THEN <<now>> ELSE lt

\* mutants of lines 48-53
sleep_branch_abs(lt, now, T) ==
    IF lt = None THEN "first"
    ELSE IF (IF now >= lt[1] THEN now - lt[1] ELSE lt[1] - now) > T THEN "open"
    ELSE "wait"
sleep_branch_flipped(lt, now, T) ==
    IF lt = None THEN "first"
    ELSE IF now - lt[1] < T THEN "open"
    ELSE "wait"

\* lines 48-53: the branch sleep() takes
sleep_branch(lt, now, T) ==
    IF lt = None THEN "first"
    ELSE IF now - lt[1] > T THEN "open"
    ELSE "wait"

\* mutant of line 54
remaining_interval_sign(lt, now, T) == T - now - lt[1]

\* line 54
remaining_interval(lt, now, T) == T - (now - lt[1])

\* line 55: the argument of time_sleep(), <<>> when time_sleep() is not called
sleep_duration(lt, now, T) ==
    IF sleep_branch(lt, now, T) = "wait" THEN <<remaining_interval(lt, now, T)>> ELSE <<>>

\* mutants of lines 49, 52, 56
sleep_last_from_now(lt, now, T) ==
    CASE sleep_branch(lt, now, T) = "first" -> <<now>>
      [] sleep_branch(lt, now, T) = "open"  -> lt
      [] sleep_branch(lt, now, T) = "wait"  -> <<now + T>>
sleep_last_now(lt, now, T) ==
    CASE sleep_branch(lt, now, T) = "first" -> <<now>>
      [] sleep_branch(lt, now, T) = "open"  -> lt
      [] sleep_branch(lt, now, T) = "wait"  -> <<now>>
sleep_last_duration(lt, now, T) ==
    CASE sleep_branch(lt, now, T) = "first" -> <<now>>
      [] sleep_branch(lt, now, T) = "open"  -> lt
      [] sleep_branch(lt, now, T) = "wait"  -> <<remaining_interval(lt, now, T)>>
sleep_last_no_first(lt, now, T) ==
    CASE sleep_branch(lt, now, T) = "first" -> lt
      [] sleep_branch(lt, now, T) = "open"  -> lt
      [] sleep_branch(lt, now, T) = "wait"  -> <<now + remaining_interval(lt, now, T)>>
sleep_last_rebase(lt, now, T) ==
    CASE sleep_branch(lt, now, T) = "first" -> <<now>>
      [] sleep_branch(lt, now, T) = "open"  -> <<now>>
      [] sleep_branch(lt, now, T) = "wait"  -> <<now + remaining_interval(lt, now, T)>>

\* lines 49, 52, 56: the value of self.last_time after sleep() returns
sleep_last(lt, now, T) ==
    CASE sleep_branch(lt, now, T) = "first" -> <<now>>
      [] sleep_branch(lt, now, T) = "open"  -> lt
      [] sleep_branch(lt, now, T) = "wait"  -> <<now + remaining_interval(lt, now, T)>>

\* no thread shares the gate
NoThreads ==
    /\ pc = <<>>
    /\ tnow = <<>>
    /\ tseen = <<>>
    /\ lock = 0
    /\ locking = FALSE
    /\ raced = FALSE
    /\ permitters = {}

\* lines 19-27; no call has been made yet
InitWith(I) ==
    /\ interval \in I
    /\ last_time = None
    /\ clock = 0
    /\ monotone = TRUE
    /\ ret = [op |-> "init", now |-> 0, prev |-> None, result |-> FALSE,
              slept |-> <<>>, raised |-> FALSE]
    /\ prev_return = <<>>
    /\ permits = {}
    /\ permit_twice = FALSE
    /\ called = {}
    /\ log = <<>>
    /\ gates = <<>>
    /\ gret = [gate |-> 0, op |-> "init", now |-> 0, result |-> FALSE, slept |-> <<>>]
    /\ NoThreads

Init == InitWith(Intervals)

\* the histories every call updates; permits is kept while the clock is monotonic
History(op, now, permit) ==
    /\ monotone' = (monotone /\ now >= clock)
    /\ prev_return' = IF ret.op = "init" THEN <<>> ELSE <<clock>>
    /\ called' = called \cup {op}
    /\ permits' = IF ~(monotone /\ now >= clock) THEN {}
                  ELSE IF permit THEN permits \cup {now}
                  ELSE permits
    /\ permit_twice' = IF ~(monotone /\ now >= clock) THEN FALSE
                       ELSE permit_twice \/ (permit /\ now \in permits)

\* lines 29-39; now is the value time() returns on line 34
should_run(now) ==
    /\ last_time' = should_run_last(last_time, now, interval)
    /\ ret' = [op |-> "should_run", now |-> now, prev |-> last_time,
               result |-> Permit(last_time, now, interval),
               slept |-> <<>>, raised |-> FALSE]
    /\ clock' = now
    /\ History("should_run", now, Permit(last_time, now, interval))
    /\ UNCHANGED <<interval, gate_vars, thread_vars>>

\* lines 41-56; now is the value time() returns on line 47 and wake the clock
\* value when the call returns.  time_sleep(d) raises for d < 0, leaving
\* line 56 unexecuted, and otherwise lasts at least d.
sleep(now, wake) ==
    LET d == sleep_duration(last_time, now, interval) IN
    /\ IF d # <<>> /\ d[1] < 0
         THEN /\ wake = now
              /\ last_time' = last_time
         ELSE /\ IF d = <<>> THEN wake = now ELSE wake >= now + d[1]
              /\ last_time' = sleep_last(last_time, now, interval)
    /\ ret' = [op |-> "sleep", now |-> now, prev |-> last_time, result |-> FALSE,
               slept |-> d, raised |-> (d # <<>> /\ d[1] < 0)]
    /\ clock' = wake
    /\ History("sleep", now, FALSE)
    /\ UNCHANGED <<interval, gate_vars, thread_vars>>

ShouldRun == \E now \in Time : should_run(now) /\ UNCHANGED log

Sleep == \E now \in Time, wake \in Time : sleep(now, wake) /\ UNCHANGED log

Next == ShouldRun \/ Sleep

Spec == Init /\ [][Next]_vars

\* ------------------------------------------------------- scenario runs
\* a gate polled as often as the scenario has readings, every call logged
InitScenario == InitWith(Intervals \cup ScenarioIntervals)

ScenarioPoll ==
    \E now \in Time \cup ScenarioTimes :
        /\ Len(log) < Len(ScenarioReadings)
        /\ should_run(now)
        /\ log' = Append(log, [now |-> now, result |-> ret'.result, last_time |-> last_time'])

NextScenario == ScenarioPoll

SpecScenario == InitScenario /\ [][NextScenario]_vars

\* ------------------------------------------------------- paced runs
\* a gate with a positive interval on which only sleep() is called, under a
\* monotonic clock, every call logged
InitPace == InitWith({T \in Intervals : T > 0})

PaceSleep ==
    \E now \in Time, wake \in Time :
        /\ Len(log) < MaxCalls
        /\ now >= clock
        /\ sleep(now, wake)
        /\ log' = Append(log, [now |-> now, wake |-> wake, slept |-> ret'.slept,
                                last_time |-> last_time'])

NextPace == PaceSleep

SpecPace == InitPace /\ [][NextPace]_vars

\* ------------------------------------------------------- several gates
\* two instances of IntervalCheck, each constructed with its own interval,
\* called in any order under one clock
GateIds == {1, 2}

\* mutant of lines 36, 49, 56: last_time kept in one place for all instances
set_last_time_shared(gs, g, lt) == [h \in DOMAIN gs |-> [gs[h] EXCEPT !.last_time = lt]]

\* lines 36, 49, 56: self.last_time = ... writes the attribute of the instance
set_last_time(gs, g, lt) == [gs EXCEPT ![g].last_time = lt]

InitGates ==
    /\ gates \in [GateIds -> [interval : Intervals, last_time : {None}]]
    /\ gret = [gate |-> 0, op |-> "init", now |-> 0, result |-> FALSE, slept |-> <<>>]
    /\ interval = 0
    /\ last_time = None
    /\ clock = 0
    /\ monotone = TRUE
    /\ ret = [op |-> "init", now |-> 0, prev |-> None, result |-> FALSE,
              slept |-> <<>>, raised |-> FALSE]
    /\ prev_return = <<>>
    /\ permits = {}
    /\ permit_twice = FALSE
    /\ called = {}
    /\ log = <<>>
    /\ NoThreads

\* lines 29-39 on the instance g
GateShouldRun ==
    \E g \in GateIds, now \in Time :
        /\ gates' = set_last_time(gates, g,
                        should_run_last(gates[g].last_time, now, gates[g].interval))
        /\ gret' = [gate |-> g, op |-> "should_run", now |-> now,
                    result |-> Permit(gates[g].last_time, now, gates[g].interval),
                    slept |-> <<>>]
        /\ clock' = now
        /\ UNCHANGED <<interval, last_time, monotone, ret, prev_return, permits,
                       permit_twice, called, log, thread_vars>>

\* lines 41-56 on the instance g; the duration is never negative
GateSleep ==
    \E g \in GateIds, now \in Time, wake \in Time :
        LET d == sleep_duration(gates[g].last_time, now, gates[g].interval) IN
        /\ IF d = <<>> THEN wake = now ELSE d[1] >= 0 /\ wake >= now + d[1]
        /\ gates' = set_last_time(gates, g,
                        sleep_last(gates[g].last_time, now, gates[g].interval))
        /\ gret' = [gate |-> g, op |-> "sleep", now |-> now, result |-> FALSE, slept |-> d]
        /\ clock' = wake
        /\ UNCHANGED <<interval, last_time, monotone, ret, prev_return, permits,
                       permit_twice, called, log, thread_vars>>

NextGates == GateShouldRun \/ GateSleep

SpecGates == InitGates /\ [][NextGates]_vars

\* ------------------------------------------------------- threads
\* two threads call should_run() on one gate again and again.  A thread runs
\* the call line by line; the test of line 35 reads self.last_time once for
\* "is None" and once more for the subtraction.  When locking holds, the
\* callers take a lock before the call and release it at the return.
Threads == {1, 2}

InitThreads ==
    /\ interval \in Intervals
    /\ last_time = None
    /\ clock = 0
    /\ monotone = TRUE
    /\ ret = [op |-> "init", now |-> 0, prev |-> None, result |-> FALSE,
              slept |-> <<>>, raised |-> FALSE]
    /\ prev_return = <<>>
    /\ permits = {}
    /\ permit_twice = FALSE
    /\ called = {}
    /\ log = <<>>
    /\ gates = <<>>
    /\ gret = [gate |-> 0, op |-> "init", now |-> 0, result |-> FALSE, slept |-> <<>>]
    /\ pc = [t \in Threads |-> "idle"]
    /\ tnow = [t \in Threads |-> 0]
    /\ tseen = [t \in Threads |-> None]
    /\ lock = 0
    /\ locking \in BOOLEAN
    /\ raced = FALSE
    /\ permitters = {}

single_vars == <<monotone, ret, prev_return, called, log, gate_vars>>

\* the caller's lock: taken before the call, released when the call returns
Acquire(t) == IF locking THEN lock = 0 /\ lock' = t ELSE lock' = lock
Release(t) == lock' = IF locking THEN 0 ELSE lock

\* the call returns: its locals are gone and the caller releases the lock
Return(t) ==
    /\ tnow' = [tnow EXCEPT ![t] = 0]
    /\ tseen' = [tseen EXCEPT ![t] = None]
    /\ Release(t)

\* the time source moves on
Tick ==
    /\ clock < MaxTime
    /\ clock' = clock + 1
    /\ UNCHANGED <<interval, last_time, permits, permit_twice, single_vars, thread_vars>>

\* thread t calls should_run()
Call(t) ==
    /\ pc[t] = "idle"
    /\ Acquire(t)
    /\ pc' = [pc EXCEPT ![t] = "L34"]
    /\ UNCHANGED <<interval, last_time, clock, permits, permit_twice, single_vars,
                   tnow, tseen, locking, raced, permitters>>

\* line 34: now = time()
ReadTime(t) ==
    /\ pc[t] = "L34"
    /\ tnow' = [tnow EXCEPT ![t] = clock]
    /\ pc' = [pc EXCEPT ![t] = "L35"]
    /\ UNCHANGED <<interval, last_time, clock, permits, permit_twice, single_vars,
                   tseen, lock, locking, raced, permitters>>

\* line 35, left operand of "or": self.last_time is None
TestNone(t) ==
    /\ pc[t] = "L35"
    /\ tseen' = [tseen EXCEPT ![t] = last_time]
    /\ pc' = [pc EXCEPT ![t] = IF last_time = None THEN "L36" ELSE "L35b"]
    /\ UNCHANGED <<interval, last_time, clock, permits, permit_twice, single_vars,
                   tnow, lock, locking, raced, permitters>>

\* line 35, right operand: now - self.last_time > self.interval; lines 38-39
\* return False when it does not hold
TestElapsed(t) ==
    /\ pc[t] = "L35b"
    /\ IF Permit(last_time, tnow[t], interval)
         THEN /\ pc' = [pc EXCEPT ![t] = "L36"]
              /\ tseen' = [tseen EXCEPT ![t] = last_time]
              /\ UNCHANGED <<tnow, lock>>
         ELSE /\ pc' = [pc EXCEPT ![t] = "idle"]
              /\ Return(t)
    /\ UNCHANGED <<interval, last_time, clock, permits, permit_twice, single_vars,
                   locking, raced, permitters>>

\* lines 36-37: self.last_time = now; return True
WriteLast(t) ==
    /\ pc[t] = "L36"
    /\ last_time' = <<tnow[t]>>
    /\ permits' = permits \cup {tnow[t]}
    /\ permit_twice' = (permit_twice \/ tnow[t] \in permits)
    /\ permitters' = permitters \cup {t}
    /\ raced' = (raced \/ last_time # tseen[t])
    /\ pc' = [pc EXCEPT ![t] = "idle"]
    /\ Return(t)
    /\ UNCHANGED <<interval, clock, single_vars, locking>>

ThreadCall == \E t \in Threads : Call(t)
ThreadReadTime == \E t \in Threads : ReadTime(t)
ThreadTestNone == \E t \in Threads : TestNone(t)
ThreadTestElapsed == \E t \in Threads : TestElapsed(t)
ThreadWriteLast == \E t \in Threads : WriteLast(t)

NextThreads ==
    Tick \/ ThreadCall \/ ThreadReadTime \/ ThreadTestNone \/ ThreadTestElapsed \/ ThreadWriteLast

SpecThreads == InitThreads /\ [][NextThreads]_vars

\* ------------------------------------------------------------- claims
PollOnly == called = {"should_run"}
SleepOnly == called = {"sleep"}

\* C1: the first call on a fresh gate (last_time None) permits: should_run()
\* returns True, sleep() returns without calling time_sleep() and at the
\* clock value it read, and either sets last_time to the value it read.
C1_FirstCallPermits ==
    ret.op # "init" /\ ret.prev = None =>
        /\ last_time = <<ret.now>>
        /\ ret.op = "should_run" => ret.result
        /\ ret.op = "sleep" => ret.slept = <<>> /\ clock = ret.now

C1_Witness ==
    /\ ret.op = "should_run" /\ ret.prev = None /\ ret.result
    /\ interval > 0 /\ ret.now > 0 /\ last_time = <<ret.now>>

\* C2: a should_run() on a gate whose last_time is t returns False when the
\* elapsed time now - t is at most the interval (equality included) and True
\* when it is more.
C2_OpenBoundary ==
    ret.op = "should_run" /\ ret.prev # None =>
        /\ ret.now - ret.prev[1] <= interval => ~ret.result
        /\ ret.now - ret.prev[1] > interval => ret.result

C2_Witness ==
    /\ ret.op = "should_run" /\ ret.prev # None /\ interval > 0
    /\ ret.now - ret.prev[1] = interval /\ ~ret.result

\* C3: with a monotonic clock, a positive interval and only should_run()
\* called, any two calls that returned True read clock values more than
\* the interval apart.
C3_PermitSpacing ==
    monotone /\ interval > 0 /\ PollOnly =>
        /\ ~permit_twice
        /\ \A a \in permits : \A b \in permits : a < b => b - a > interval

C3_Witness ==
    /\ monotone /\ interval > 1 /\ PollOnly /\ ~permit_twice
    /\ Cardinality(permits) = 2
    /\ ret.op = "should_run" /\ ~ret.result /\ ret.now > ret.prev[1]

\* C4 as stated: with a monotonic clock, a positive interval and only
\* sleep() called, two consecutive calls return at clock values at least the
\* interval apart.
C4_WaitSpacing ==
    monotone /\ interval > 0 /\ SleepOnly /\ prev_return # <<>> =>
        clock - prev_return[1] >= interval

\* C4 amended: a sleep() that finds last_time set returns at a clock value at
\* least the interval above that last_time; so two consecutive calls return
\* at least the interval apart when the earlier one returned at the value it
\* left in last_time (it neither overslept nor found the gate open).
C4_ReturnsAfterBaseline ==
    ret.op = "sleep" /\ ret.prev # None =>
        /\ ~ret.raised
        /\ clock - ret.prev[1] >= interval
        /\ prev_return = ret.prev => clock - prev_return[1] >= interval

C4_Witness ==
    /\ monotone /\ interval > 1 /\ SleepOnly
    /\ ret.prev # None /\ ret.slept # <<>> /\ ret.slept[1] > 0 /\ ret.now > ret.prev[1]
    /\ prev_return = ret.prev /\ clock - prev_return[1] = interval

\* C5: calling only sleep() on a gate with a positive interval, the first
\* call does not call time_sleep() and every later call does.
C5_SleepsAfterFirst ==
    SleepOnly /\ interval > 0 =>
        /\ ret.prev = None => ret.slept = <<>>
        /\ ret.prev # None => ret.slept # <<>>

\* C6: a sleep() with last_time t set and elapsed time e = now - t at most
\* the interval calls time_sleep(interval - e) and sets last_time to now plus
\* that duration, which is t + interval, whatever the clock shows at the
\* return; the call that follows measures the elapsed time from t + interval.
C6_TargetState ==
    ret.op = "sleep" /\ ret.prev # None /\ ret.now - ret.prev[1] <= interval =>
        /\ ~ret.raised
        /\ ret.slept = <<interval - (ret.now - ret.prev[1])>>
        /\ last_time = <<ret.now + ret.slept[1]>>
        /\ last_time = <<ret.prev[1] + interval>>

C6_NextMeasuresFromTarget ==
    ret.op = "sleep" /\ ret.slept # <<>> /\ vars' # vars =>
        LET target == ret.prev[1] + interval IN
        /\ ret'.prev = <<target>>
        /\ ret'.op = "should_run" => ret'.result = (ret'.now - target > interval)
        /\ ret'.op = "sleep" =>
              ret'.slept = IF ret'.now - target > interval THEN <<>>
                           ELSE <<interval - (ret'.now - target)>>

C6_WaitTarget == []C6_TargetState /\ [][C6_NextMeasuresFromTarget]_vars

C6_Witness ==
    /\ ret.op = "sleep" /\ ret.prev # None /\ interval > 1
    /\ ret.now > ret.prev[1] /\ ret.now - ret.prev[1] < interval
    /\ clock > ret.now + ret.slept[1]
    /\ last_time = <<ret.prev[1] + interval>>

\* C7: a sleep() with last_time set and now - last_time above the interval
\* returns at once, without time_sleep(), and leaves last_time as it was; a
\* call that follows and reads a clock value not below now finds the gate
\* still open: should_run() returns True and sleep() again does not sleep.
C7_OpenState ==
    ret.op = "sleep" /\ ret.prev # None /\ ret.now - ret.prev[1] > interval =>
        ret.slept = <<>> /\ clock = ret.now /\ last_time = ret.prev

C7_OpenStep ==
    LET open(r) == r.op = "sleep" /\ r.prev # None /\ r.now - r.prev[1] > interval IN
    /\ open(ret') /\ vars' # vars => last_time' = last_time
    /\ open(ret) /\ vars' # vars /\ ret'.now >= ret.now =>
          /\ ret'.prev = ret.prev
          /\ ret'.op = "should_run" => ret'.result
          /\ ret'.op = "sleep" => ret'.slept = <<>> /\ last_time' = ret.prev

C8_AlwaysPermits ==
    monotone /\ interval <= 0 /\ PollOnly /\ ret.prev # None => ret.result

\* C8 amended: with a monotonic clock, a negative interval makes every
\* should_run() after the first return True; with interval 0 such a call
\* returns True exactly when it reads a clock value above last_time, and
\* False when it reads the value last_time holds.
C8_DegenerateInterval ==
    monotone /\ ret.op = "should_run" /\ ret.prev # None =>
        /\ interval < 0 => ret.result
        /\ interval = 0 => ret.result = (ret.now > ret.prev[1])

C8_Witness ==
    /\ monotone /\ interval = 0 /\ PollOnly
    /\ ret.prev = <<ret.now>> /\ ~ret.result /\ last_time = ret.prev

\* C9: a should_run() that returns False leaves last_time and interval as
\* they were.
C9_FalseMutatesNothing ==
    [][ret'.op = "should_run" /\ ~ret'.result => UNCHANGED <<last_time, interval>>]_vars

C9_Witness ==
    /\ ret.op = "should_run" /\ ~ret.result
    /\ ret.now > ret.prev[1] /\ last_time = ret.prev

\* C10: a should_run() that returns True sets last_time to the clock value
\* it read; with interval 1.0 s the calls at 0.0, 0.5, 1.05 and 1.5 s return
\* True, False, True, False and leave last_time at 0.0, 0.0, 1.05, 1.05.
ScenarioResults == <<TRUE, FALSE, TRUE, FALSE>>
ScenarioBaselines == <<0, 0, 21, 21>>

C10_RebaselineToNow ==
    /\ ret.op = "should_run" /\ ret.result => last_time = <<ret.now>>
    /\ \A i \in 1..Len(log) :
          log[i].result => log[i].last_time = <<log[i].now>>
    /\ interval \in ScenarioIntervals =>
          \A i \in 1..Len(log) :
              (\A j \in 1..i : log[j].now = ScenarioReadings[j]) =>
                  /\ log[i].result = ScenarioResults[i]
                  /\ log[i].last_time = <<ScenarioBaselines[i]>>

C10_Witness ==
    /\ interval \in ScenarioIntervals
    /\ Len(log) = Len(ScenarioReadings)
    /\ \A j \in 1..Len(log) : log[j].now = ScenarioReadings[j]
    /\ last_time = <<21>>

\* C11: sleep() called back to back (each call reads the clock value at
\* which the call before returned) with time_sleep() lasting exactly the
\* requested duration: the first call returns at once with last_time t0, and
\* the k-th later call sleeps exactly the interval and leaves last_time at
\* t0 + k * interval (interval 2: last_time 0, 2, 4).
ExactlyPaced(i) ==
    \A j \in 1..i :
        /\ j > 1 => log[j].now = log[j-1].wake
        /\ log[j].wake = log[j].now + (IF log[j].slept = <<>> THEN 0 ELSE log[j].slept[1])

C11_ExactPacing ==
    \A i \in 1..Len(log) :
        ExactlyPaced(i) =>
            /\ i = 1 => log[i].slept = <<>> /\ log[i].last_time = <<log[1].now>>
            /\ i > 1 => /\ log[i].slept = <<interval>>
                        /\ log[i].last_time = <<log[1].now + (i - 1) * interval>>
                        /\ log[i].wake = log[i].last_time[1]

C11_Witness ==
    /\ interval = 2 /\ Len(log) = 3 /\ ExactlyPaced(3)
    /\ log[1].last_time = <<0>> /\ log[2].last_time = <<2>> /\ log[3].last_time = <<4>>
    /\ last_time = <<4>> /\ clock = 4

\* C12: on a gate with a positive interval and last_time set, a call that
\* reads a clock value below last_time does not fail: should_run() returns
\* False and leaves last_time as it was, and sleep() takes the sleeping branch
\* with the duration interval + (last_time - now), which is above the interval.
C12_BackwardClock ==
    ret.op # "init" /\ interval > 0 /\ ret.prev # None /\ ret.now < ret.prev[1] =>
        /\ ~ret.raised
        /\ ret.op = "should_run" => ~ret.result /\ last_time = ret.prev
        /\ ret.op = "sleep" =>
              /\ ret.slept = <<interval + (ret.prev[1] - ret.now)>>
              /\ ret.slept[1] > interval
              /\ last_time = <<ret.now + ret.slept[1]>>

C12_Witness ==
    /\ ret.op = "sleep" /\ interval > 0 /\ ret.prev # None
    /\ ret.prev[1] - ret.now > interval /\ ~monotone
    /\ ret.slept # <<>> /\ ~ret.raised

\* C13: the duration sleep() passes to time_sleep() is never negative, for
\* every interval, every last_time and every clock reading, so time_sleep()
\* never raises.
C13_DurationNonNegative ==
    ret.op = "sleep" => /\ ~ret.raised
                        /\ ret.slept # <<>> => ret.slept[1] >= 0

C13_Witness ==
    /\ ret.op = "sleep" /\ interval < 0 /\ ~monotone
    /\ ret.slept = <<0>> /\ ret.now < ret.prev[1]

\* C14: with a monotonic clock and a positive interval, once last_time is set
\* no call of should_run() or sleep() lowers it.
C14_BaselineNeverDecreases ==
    [][monotone' /\ interval > 0 /\ last_time # None =>
           last_time' # None /\ last_time'[1] >= last_time[1]]_vars

C14_Witness ==
    /\ monotone /\ interval > 0 /\ called = {"should_run", "sleep"}
    /\ ret.op = "sleep" /\ ret.prev # None /\ last_time[1] > ret.prev[1]
    /\ permits # {}

\* C15: no call changes interval; last_time is None exactly until the first
\* call of either operation has completed and is never None afterwards.
C15_Lifecycle ==
    /\ [](last_time = None <=> ret.op = "init")
    /\ [][interval' = interval /\ (last_time # None => last_time' # None)]_vars

C15_Witness ==
    /\ called = {"should_run", "sleep"} /\ last_time # None
    /\ ret.op = "should_run" /\ ret.prev # None /\ ~ret.result

\* C19: with a monotonic clock, an interval of 0 or more and time_sleep()
\* lasting at least the requested duration, after every completed call
\* last_time, when set, is at most the current clock value, so the next call
\* (which reads a value not below the clock) computes an elapsed time of 0 or
\* more.
C19_BaselineNotInFuture ==
    /\ monotone /\ interval >= 0 /\ last_time # None => last_time[1] <= clock
    /\ monotone /\ interval >= 0 /\ ret.op # "init" /\ ret.prev # None =>
          ret.now - ret.prev[1] >= 0

C19_Witness ==
    /\ monotone /\ interval > 0 /\ called = {"should_run", "sleep"}
    /\ ret.op = "sleep" /\ ret.slept # <<>> /\ ret.slept[1] > 0
    /\ ret.now > ret.prev[1] /\ last_time = <<clock>>

\* C16: a call of should_run() or sleep() on one gate leaves the interval and
\* last_time of every other gate as they were, and what the call returns,
\* sleeps and stores is determined by the called gate's own interval and
\* last_time and the clock value the call read.
C16_OtherGatesUnchanged ==
    \A h \in GateIds : h # gret'.gate => gates'[h] = gates[h]

C16_OwnStateDecides ==
    LET g == gret'.gate
        own == gates[g]
        now == gret'.now
        open == own.last_time = None \/ now - own.last_time[1] > own.interval
    IN  /\ gates'[g].interval = own.interval
        /\ gret'.op = "should_run" =>
              /\ gret'.result = open
              /\ gates'[g].last_time = IF open THEN <<now>> ELSE own.last_time
        /\ gret'.op = "sleep" =>
              /\ gret'.slept = IF open THEN <<>> ELSE <<own.interval - (now - own.last_time[1])>>
              /\ gates'[g].last_time =
                    IF own.last_time = None THEN <<now>>
                    ELSE IF open THEN own.last_time
                    ELSE <<own.last_time[1] + own.interval>>

C16_GatesIndependent == [][C16_OtherGatesUnchanged /\ C16_OwnStateDecides]_vars

C16_Witness ==
    /\ gret.op = "should_run" /\ gret.result /\ gret.gate = 2
    /\ gates[1].interval > 0 /\ gates[2].interval > 0
    /\ gates[1].last_time # None
    /\ gates[1].last_time # gates[2].last_time
    /\ gret.now - gates[1].last_time[1] >= 0
    /\ gret.now - gates[1].last_time[1] <= gates[1].interval

\* two calls that returned True read clock values at most the interval apart
ClosePermits ==
    \/ permit_twice
    \/ \E a \in permits : \E b \in permits : a < b /\ b - a <= interval

\* C17: when the threads sharing a gate with a positive interval wrap every
\* should_run() in the caller's lock, then in every interleaving any two calls
\* that return True, in whichever threads, read clock values more than the
\* interval apart.
C17_LockedSpacing ==
    locking /\ interval > 0 => ~ClosePermits /\ ~raced

C17_Witness ==
    /\ locking /\ interval > 0 /\ permitters = Threads
    /\ Cardinality(permits) >= 2 /\ lock # 0
    /\ \E t \in Threads : pc[t] = "L36" /\ tnow[t] - last_time[1] > interval

\* C18: should_run() is not atomic: without the lock two threads can both
\* return True although their clock readings are at most the interval apart,
\* and this happens only when some call wrote last_time (line 36) after
\* another call had written it between that call's test (line 35) and its
\* write.
C18_CloseOnlyByRace ==
    interval > 0 /\ ClosePermits => ~locking /\ raced

C18_Witness ==
    /\ ~locking /\ interval > 0 /\ permitters = Threads
    /\ ClosePermits /\ raced
    /\ Cardinality(permits) = 2

====
